---- MODULE Spec2Model ----
(***************************************************************************)
(* coalesce-memory, the "come" command (bin/come.js).                      *)
(*                                                                         *)
(* Text is a sequence of atoms.  An atom is one character (the backtick,   *)
(* written BT, the backslash, "/", the newline, " ") or a run of           *)
(* characters the program never splits (a path segment such as "A" for     *)
(* AGENTS.md, the literal ">>> ", a word of file content).  The filesystem *)
(* is a function from absolute paths to entries; a path that is not in its *)
(* domain does not exist.                                                  *)
(***************************************************************************)
EXTENDS Integers, Sequences, FiniteSets, TLC

\* ------------------------------------------------------------------ bounds
\* longest argument list of one invocation
MaxFiles == 2
\* invocations in a row (the first and its repetitions with the same arguments)
MaxRuns == 2
\* longest file name, in atoms, of the runs that compare block markers
MaxName == 3
\* longest command line, in tokens, of the runs that parse it
MaxArgs == 3

\* ------------------------------------------------------------ text helpers
NL == "\n"
\* the backtick character and the backslash character
BT == "bt"
BS == "\\"
Whitespace == {" ", "\n", "\t", "\r"}

\* String.prototype.includes
includes(s, t) ==
  \E k \in 1..(Len(s) - Len(t) + 1) : SubSeq(s, k, k + Len(t) - 1) = t

\* String.prototype.startsWith / endsWith
startsWith(s, t) == Len(t) <= Len(s) /\ SubSeq(s, 1, Len(t)) = t
endsWith(s, t) == Len(t) <= Len(s) /\ SubSeq(s, Len(s) - Len(t) + 1, Len(s)) = t

\* String.prototype.trim: drop the whitespace at both ends
trim(s) ==
  LET keep == {k \in 1..Len(s) : s[k] \notin Whitespace}
  IN  IF keep = {} THEN <<>>
      ELSE LET lo == CHOOSE k \in keep : \A j \in keep : k <= j
               hi == CHOOSE k \in keep : \A j \in keep : k >= j
           IN  SubSeq(s, lo, hi)

\* String.prototype.split(sep) for a one-atom separator
RECURSIVE split(_, _)
split(s, sep) ==
  LET at == {k \in 1..Len(s) : s[k] = sep}
  IN  IF at = {} THEN <<s>>
      ELSE LET k == CHOOSE x \in at : \A y \in at : x <= y
           IN  <<SubSeq(s, 1, k - 1)>> \o split(SubSeq(s, k + 1, Len(s)), sep)

\* Array.prototype.join(sep)
RECURSIVE join(_, _)
join(parts, sep) ==
  IF Len(parts) = 0 THEN <<>>
  ELSE IF Len(parts) = 1 THEN parts[1]
  ELSE parts[1] \o <<sep>> \o join(Tail(parts), sep)

\* number of (possibly overlapping) occurrences of t in s
Occurrences(s, t) ==
  Cardinality({k \in 1..(Len(s) - Len(t) + 1) : SubSeq(s, k, k + Len(t) - 1) = t})

\* ------------------------------------------------------------ path helpers
\* path.normalize on the segments of an absolute path: "" and "." vanish,
\* ".." removes the segment before it
RECURSIVE normalizeSegs(_, _)
normalizeSegs(segs, acc) ==
  IF Len(segs) = 0 THEN acc
  ELSE LET h == Head(segs)
       IN  IF h = <<>> \/ h = <<".">> THEN normalizeSegs(Tail(segs), acc)
           ELSE IF h = <<".", ".">>
                THEN normalizeSegs(Tail(segs),
                       IF Len(acc) = 0 THEN acc ELSE SubSeq(acc, 1, Len(acc) - 1))
                ELSE normalizeSegs(Tail(segs), Append(acc, h))

pathSegs(p) == normalizeSegs(split(p, "/"), <<>>)
pathOfSegs(segs) == <<"/">> \o join(segs, "/")

\* path.isAbsolute
isAbsolute(p) == Len(p) > 0 /\ p[1] = "/"

\* path.join(a, b): both joined with "/" and normalized (a is absolute here)
pathJoin(a, b) == pathOfSegs(pathSegs(a \o <<"/">> \o b))

\* path.dirname of an absolute, normalized path
dirname(p) ==
  LET segs == pathSegs(p)
  IN  IF Len(segs) = 0 THEN <<"/">> ELSE pathOfSegs(SubSeq(segs, 1, Len(segs) - 1))

\* path.relative(from, to) for absolute paths
RECURSIVE commonLen(_, _)
commonLen(a, b) ==
  IF Len(a) = 0 \/ Len(b) = 0 \/ Head(a) # Head(b) THEN 0
  ELSE 1 + commonLen(Tail(a), Tail(b))

pathRelative(from, to) ==
  LET f == pathSegs(from)
      t == pathSegs(to)
      c == commonLen(f, t)
      ups == [k \in 1..(Len(f) - c) |-> <<".", ".">>]
  IN  join(ups \o SubSeq(t, c + 1, Len(t)), "/")

\* -------------------------------------------------------------- filesystem
File(c) == [kind |-> "file", data |-> c]
Link(t) == [kind |-> "link", data |-> t]

put(f, p, e) == [q \in (DOMAIN f) \cup {p} |-> IF q = p THEN e ELSE f[q]]
del(f, p) == [q \in (DOMAIN f) \ {p} |-> f[q]]

\* the result of a path lookup that meets a cycle of links (ELOOP)
ELOOP == <<"ELOOP">>

\* where a link at path p with target t points
linkDest(p, t) == IF isAbsolute(t) THEN pathOfSegs(pathSegs(t)) ELSE pathJoin(dirname(p), t)

\* the path a following call (open, access, copy) ends at: links are followed,
\* a chain longer than the number of entries is a cycle
RECURSIVE follow(_, _, _)
follow(f, p, n) ==
  IF p \notin DOMAIN f THEN p
  ELSE IF f[p].kind # "link" THEN p
  ELSE IF n = 0 THEN ELOOP
  ELSE follow(f, linkDest(p, f[p].data), n - 1)

realpath(f, p) == follow(f, p, Cardinality(DOMAIN f))

\* every call yields [ok, fs, value]; a failed call leaves the filesystem alone
Fail(f) == [ok |-> FALSE, fs |-> f, value |-> <<>>]
Succeed(f, v) == [ok |-> TRUE, fs |-> f, value |-> v]

\* fs.access(p): the path resolves to something that exists
access(f, p) ==
  LET r == realpath(f, p)
  IN  IF r # ELOOP /\ r \in DOMAIN f THEN Succeed(f, <<>>) ELSE Fail(f)

\* fs.readFile(p, "utf8")
readFile(f, p) ==
  LET r == realpath(f, p)
  IN  IF r # ELOOP /\ r \in DOMAIN f THEN Succeed(f, f[r].data) ELSE Fail(f)

\* fs.writeFile(p, data): creates or truncates the file the path resolves to
writeFile(f, p, data, fault) ==
  LET r == realpath(f, p)
  IN  IF r = ELOOP \/ fault THEN Fail(f) ELSE Succeed(put(f, r, File(data)), <<>>)

\* fs.appendFile(p, data): creates the file when it does not exist
appendFile(f, p, data, fault) ==
  LET r == realpath(f, p)
  IN  IF r = ELOOP \/ fault THEN Fail(f)
      ELSE Succeed(put(f, r, File((IF r \in DOMAIN f THEN f[r].data ELSE <<>>) \o data)), <<>>)

\* fs.copyFile(src, dest)
copyFile(f, src, dest, fault) ==
  LET rd == readFile(f, src)
  IN  IF ~rd.ok THEN Fail(f) ELSE writeFile(f, dest, rd.value, fault)

\* fs.unlink(p): removes the entry itself, never what a link points to
unlink(f, p, fault) ==
  IF p \notin DOMAIN f \/ fault THEN Fail(f) ELSE Succeed(del(f, p), <<>>)

\* fs.rename(from, to): replaces whatever is at the destination
rename(f, from, to, fault) ==
  IF from \notin DOMAIN f \/ fault THEN Fail(f)
  ELSE IF from = to THEN Succeed(f, <<>>)
  ELSE Succeed(put(del(f, from), to, f[from]), <<>>)

\* ------------------------------------------------------------------- state
VARIABLES
  fs,              \* the filesystem: absolute path -> File(content) or Link(target)
  args,            \* process.argv.slice(2), the command line
  argIdx,          \* i of the parsing loop, the position in args
  options,         \* the CLI options of lines 32-39
  filesToProcess,  \* the file arguments, in the order given
  platform,        \* "linux", or "win32": a Windows host on which the process
                   \* lacks the privilege to create symbolic links (EPERM)
  pc,              \* the statement the run is at; "exit0" and "exit1" end it
  fileIdx,         \* the position of the main loop in filesToProcess
  critical,        \* the "Critical error: Failed to rollback" line was printed
  run,             \* the number of this invocation; Date.now() of its backups
  fs0,             \* history: the filesystem when this invocation started
  prevExit,        \* history: how the invocation before this one ended
  replaced,        \* history: [file, content] of every regular file for which
                   \* the link took its place
  linkErr,         \* history: link creation threw in the replace step
  orig,            \* history: what the input held when it was renamed away
  inserted         \* history: arguments first recorded while not yet listed

cfg == <<args, argIdx, options, filesToProcess, platform>>
history == <<fs0, prevExit, replaced, linkErr, orig, inserted>>
vars == <<fs, cfg, pc, fileIdx, critical, run, history>>

\* ------------------------------------------------------- names and contents
\* process.cwd()
cwd == <<"/", "w">>

\* the default of options.output, AGENTS.md
AGENTS == <<"A">>
\* the same file, named ./AGENTS.md
DotAGENTS == <<".", "/", "A">>
\* CLAUDE.md
CLAUDE == <<"C">>
\* sub/GEMINI.md
GEMINI == <<"s", "/", "G">>

Names == {AGENTS, DotAGENTS, CLAUDE, GEMINI}

\* what an input holds when it starts as a regular file
InitialContent(name) ==
  IF name = CLAUDE THEN <<" ", "c", NL>> ELSE <<"g", " ", "g">>

\* a target no invocation computes: the link is stale
StaleTarget == <<"O">>

\* ------------------------------------------------------ the program's terms
unified == options.output

\* line 160
unifiedPath == IF isAbsolute(unified) THEN unified ELSE pathJoin(cwd, unified)

\* line 183: the argument the loop is at
file == filesToProcess[fileIdx]

\* line 191
filePath == pathJoin(cwd, file)

\* lines 198, 211, 252: the target a link at path p is given
symlinkTarget(p) ==
  IF options.absolute THEN unifiedPath ELSE pathRelative(dirname(p), unifiedPath)

\* line 254
backupPath == filePath \o <<".backup-", ToString(run)>>

\* line 231: file.replace(/`/g, '\\`')
RECURSIVE safeFilename(_)
safeFilename(name) ==
  IF Len(name) = 0 THEN <<>>
  ELSE (IF Head(name) = BT THEN <<BS, BT>> ELSE <<Head(name)>>) \o safeFilename(Tail(name))

\* lines 232-233
blockStart(name) == <<BT, ">>> ">> \o safeFilename(name) \o <<BT>>
blockEnd(name) == <<BT, "<<< ">> \o safeFilename(name) \o <<BT>>

\* line 241: what a merge appends after the separator
blockText(name, text) ==
  blockStart(name) \o <<NL>> \o trim(text) \o <<NL>> \o blockEnd(name) \o <<NL>>

\* lines 57-59
gitignorePath == pathJoin(cwd, <<".gitignore">>)
gitignoreBlockStart == <<"# coalesce-memory symlinked files">>
gitignoreBlockEnd == <<"# end coalesce-memory">>

\* ------------------------------------------------------------- subroutines
\* fs.symlink(target, p): value is the error code, "none" when the link is made.
\* On the win32 host of this model the call is refused with EPERM.
symlink(f, target, p, fault) ==
  LET code == IF platform = "win32" THEN "EPERM"
              ELSE IF p \in DOMAIN f THEN "EEXIST"
              ELSE IF fault THEN "EIO"
              ELSE "none"
  IN  IF code = "none" THEN Succeed(put(f, p, Link(target)), code)
      ELSE [ok |-> FALSE, fs |-> f, value |-> code]

\* lines 14-29
createSymlinkWithFallback(f, target, linkPath, fallbackSourcePath, fault) ==
  LET made == symlink(f, target, linkPath, fault)
  IN  IF made.ok THEN made
      ELSE IF platform = "win32" /\ made.value \in {"EPERM", "ENOENT"}
           THEN copyFile(f, fallbackSourcePath, linkPath, fault)
           ELSE Fail(f)

\* Array.prototype.findIndex over the lines after position from, 0 for none
firstLine(lines, from, text) ==
  LET at == {k \in (from + 1)..Len(lines) : trim(lines[k]) = text}
  IN  IF at = {} THEN 0 ELSE CHOOSE k \in at : \A j \in at : k <= j

\* alreadyListed as it would be with the slice begun one line late
alreadyListed_OffByOne(lines, startIdx, endIdx, filename) ==
  \E k \in (startIdx + 2)..(endIdx - 1) : trim(lines[k]) = filename

\* lines 79-80: the block's entries, the lines between the two markers,
\* already hold the name
alreadyListed(lines, startIdx, endIdx, filename) ==
  \E k \in (startIdx + 1)..(endIdx - 1) : trim(lines[k]) = filename

\* lines 56-93: addToGitignore past its dry-run guard
recordInGitignore(f, filename, fault) ==
  LET rd == readFile(f, gitignorePath)
      block == gitignoreBlockStart \o <<NL>> \o filename \o <<NL>>
                 \o gitignoreBlockEnd \o <<NL>>
  IN  IF ~rd.ok THEN writeFile(f, gitignorePath, block, fault)
      ELSE
        LET lines == split(rd.value, NL)
            startIdx == firstLine(lines, 0, gitignoreBlockStart)
            endIdx == IF startIdx # 0
                      THEN firstLine(lines, startIdx, gitignoreBlockEnd) ELSE 0
        IN  IF startIdx # 0 /\ endIdx # 0
            THEN IF alreadyListed(lines, startIdx, endIdx, filename)
                 THEN Succeed(f, <<>>)
                 ELSE writeFile(f, gitignorePath,
                        join(SubSeq(lines, 1, endIdx - 1) \o <<filename>>
                               \o SubSeq(lines, endIdx, Len(lines)), NL),
                        fault)
            ELSE appendFile(f, gitignorePath,
                   (IF Len(rd.value) > 0 THEN <<NL, NL>> ELSE <<>>) \o block, fault)

\* addToGitignore as it would be without lines 51-54
addToGitignore_NoDryRunGuard(f, filename, fault) ==
  recordInGitignore(f, filename, fault)

\* lines 50-94
addToGitignore(f, filename, fault) ==
  IF options.dryRun THEN Succeed(f, <<>>) ELSE recordInGitignore(f, filename, fault)

\* line 184 as it would be if it compared the argument with unifiedPath
isUnifiedItself_ComparesPath(name) == name = unifiedPath

\* line 184: the argument is the unified file itself
isUnifiedItself(name) == name = unified

\* the lines of the ignore-list's block, trimmed: from the first start marker
\* to the first end marker after it
gitignoreEntries(f) ==
  IF gitignorePath \notin DOMAIN f THEN <<>>
  ELSE LET lines == split(f[gitignorePath].data, NL)
           s == firstLine(lines, 0, gitignoreBlockStart)
           e == IF s # 0 THEN firstLine(lines, s, gitignoreBlockEnd) ELSE 0
       IN  IF s = 0 \/ e = 0 THEN <<>>
           ELSE [k \in 1..(e - s - 1) |-> trim(lines[s + k])]

\* -------------------------------------------------------------------- Init
\* the tokens of lines 105-123; a token is text, its first atom the "-"
HelpTokens == {<<"-", "h">>, <<"-", "-help">>}
VersionTokens == {<<"-", "-version">>}
OutputTokens == {<<"-", "o">>, <<"-", "-output">>}
AbsoluteTokens == {<<"-", "-absolute">>}
DryRunTokens == {<<"-", "-dry-run">>}
VerboseTokens == {<<"-", "v">>, <<"-", "-verbose">>}

\* a command line that the parsing of lines 100-133 turns into these options
\* and file arguments
commandLine(opts, files) ==
  (IF opts.absolute THEN <<<<"-", "-absolute">>>> ELSE <<>>)
    \o (IF opts.dryRun THEN <<<<"-", "-dry-run">>>> ELSE <<>>)
    \o files

\* In the runs of Spec the command line is parsed already: the run starts at
\* the bootstrap with the options and file arguments line 133 has left.
ArgLists == UNION {[1..n -> Names] : n \in 1..MaxFiles}

\* the inputs that have a path of their own
OwnNames == {CLAUDE, GEMINI}
EntryKinds == {"absent", "file", "link", "stale"}

\* The working directory before the first invocation: "fresh" has neither a
\* unified file nor a .gitignore; "used" has text in both (the unified file's
\* ends with a blank line), and no block in either; "converted" is what an earlier conversion of CLAUDE.md left, its
\* block in the unified file and its name in the block of .gitignore.
RepoKinds == {"fresh", "used", "converted"}

InitialUnified(repo) ==
  IF repo = "used" THEN <<"u", NL, NL>>
  ELSE <<"u", NL, NL>> \o blockText(CLAUDE, <<"old">>)

InitialGitignore(repo) ==
  IF repo = "used" THEN <<"n", NL>>
  ELSE <<"n", NL>> \o gitignoreBlockStart \o <<NL>> \o CLAUDE \o <<NL>>
         \o gitignoreBlockEnd \o <<NL>>

InitialEntry(name, kind) ==
  IF kind = "file" THEN File(InitialContent(name))
  ELSE IF kind = "link"
       THEN Link(pathRelative(dirname(pathJoin(cwd, name)), pathJoin(cwd, AGENTS)))
       ELSE Link(StaleTarget)

InitialFs(st, repo) ==
  LET own == {n \in OwnNames : st[n] # "absent"}
      paths == {pathJoin(cwd, n) : n \in own}
                 \cup (IF repo = "fresh" THEN {} ELSE {pathJoin(cwd, AGENTS), gitignorePath})
  IN  [p \in paths |->
         IF p = gitignorePath THEN File(InitialGitignore(repo))
         ELSE IF p = pathJoin(cwd, AGENTS) THEN File(InitialUnified(repo))
         ELSE LET n == CHOOSE m \in own : pathJoin(cwd, m) = p
              IN  InitialEntry(n, st[n])]

Init ==
  /\ filesToProcess \in ArgLists
  /\ options \in [output : {AGENTS}, absolute : BOOLEAN, dryRun : BOOLEAN,
                  verbose : {FALSE}, showHelp : {FALSE}, showVersion : {FALSE}]
  /\ args = commandLine(options, filesToProcess)
  /\ argIdx = Len(args) + 1
  /\ platform \in {"linux", "win32"}
  /\ \E st \in [OwnNames -> EntryKinds], repo \in RepoKinds :
       /\ \A n \in OwnNames :
            (\A k \in DOMAIN filesToProcess : filesToProcess[k] # n) => st[n] = "absent"
       /\ fs = InitialFs(st, repo)
  /\ pc = "bootstrap"
  /\ fileIdx = 1
  /\ critical = FALSE
  /\ run = 1
  /\ fs0 = fs
  /\ prevExit = "none"
  /\ replaced = {}
  /\ linkErr = FALSE
  /\ orig = <<>>
  /\ inserted = <<>>

\* ----------------------------------------------------------------- actions
\* In every action that makes a call which changes the filesystem, fault says
\* whether that call fails for a reason outside the model (EIO, EACCES, ENOSPC).
\* A run meets at most two such failures: the one that throws, and the rename
\* in the catch block of lines 259-268.

\* lines 169-180: ensure the unified file exists (skipped in dry-run)
Bootstrap(fault) ==
  /\ pc = "bootstrap"
  /\ IF options.dryRun \/ access(fs, unifiedPath).ok
     THEN ~fault /\ fs' = fs /\ pc' = "loop"
     ELSE LET w == writeFile(fs, unifiedPath, <<>>, fault)
          IN  fs' = w.fs /\ pc' = IF w.ok THEN "loop" ELSE "exit1"
  /\ UNCHANGED <<cfg, fileIdx, critical, run, history>>

\* lines 183-187: the unified file itself is skipped
SkipUnified ==
  /\ pc = "loop"
  /\ fileIdx <= Len(filesToProcess)
  /\ isUnifiedItself(file)
  /\ fileIdx' = fileIdx + 1
  /\ UNCHANGED <<fs, cfg, pc, critical, run, history>>

\* lines 193-196, 208: fs.lstat(p) does not follow a link; "absent" when it throws
lstat(f, p) == IF p \notin DOMAIN f THEN "absent" ELSE f[p].kind

\* the loop is at an argument that is not skipped
AtArgument ==
  /\ pc = "loop"
  /\ fileIdx <= Len(filesToProcess)
  /\ ~isUnifiedItself(file)

\* the absent branch as it would be if it also appended an empty block for the
\* name to the unified file
CreateForAbsent_AppendsBlock(fault) ==
  /\ AtArgument
  /\ lstat(fs, filePath) = "absent"
  /\ IF options.dryRun
     THEN ~fault /\ fs' = fs /\ pc' = "gitignore"
     ELSE LET r == createSymlinkWithFallback(fs, symlinkTarget(filePath), filePath,
                                             unifiedPath, fault)
          IN  /\ fs' = IF r.ok
                       THEN appendFile(r.fs, unifiedPath, blockText(file, <<>>), FALSE).fs
                       ELSE r.fs
              /\ pc' = IF r.ok THEN "gitignore" ELSE "exit1"
  /\ UNCHANGED <<cfg, fileIdx, critical, run, history>>

\* lines 193-203: no such file, a link to the unified file is created
CreateForAbsent(fault) ==
  /\ AtArgument
  /\ lstat(fs, filePath) = "absent"
  /\ IF options.dryRun
     THEN ~fault /\ fs' = fs /\ pc' = "gitignore"
     ELSE LET r == createSymlinkWithFallback(fs, symlinkTarget(filePath), filePath,
                                             unifiedPath, fault)
          IN  fs' = r.fs /\ pc' = IF r.ok THEN "gitignore" ELSE "exit1"
  /\ UNCHANGED <<cfg, fileIdx, critical, run, history>>

\* line 213 as it would be if a link's target were never examined
wrongTarget_Never(f, p) == FALSE

\* line 213: the link's target is not the expected one
wrongTarget(f, p) == f[p].data # symlinkTarget(p)

\* lines 208-216, 220-224: a link with the expected target is left alone, and
\* so is every link in dry-run
KeepSymlink ==
  /\ AtArgument
  /\ lstat(fs, filePath) = "link"
  /\ ~wrongTarget(fs, filePath) \/ options.dryRun
  /\ pc' = "gitignore"
  /\ UNCHANGED <<fs, cfg, fileIdx, critical, run, history>>

\* lines 208-217: a link with another target is removed
UnlinkStale(fault) ==
  /\ AtArgument
  /\ lstat(fs, filePath) = "link"
  /\ wrongTarget(fs, filePath) /\ ~options.dryRun
  /\ LET r == unlink(fs, filePath, fault)
     IN  fs' = r.fs /\ pc' = IF r.ok THEN "relink" ELSE "exit1"
  /\ UNCHANGED <<cfg, fileIdx, critical, run, history>>

\* line 218: and created again with the expected target
Relink(fault) ==
  /\ pc = "relink"
  /\ LET r == createSymlinkWithFallback(fs, symlinkTarget(filePath), filePath,
                                        unifiedPath, fault)
     IN  fs' = r.fs /\ pc' = IF r.ok THEN "gitignore" ELSE "exit1"
  /\ UNCHANGED <<cfg, fileIdx, critical, run, history>>

\* the merge as it would be if line 237 chose the separator whenever the
\* unified file has text
mergeInto_AlwaysSeparates(f, name, content, unifiedTx, fault) ==
  IF ~includes(unifiedTx, blockStart(name)) /\ ~options.dryRun
  THEN LET separator == IF Len(unifiedTx) > 0 THEN <<NL, NL>> ELSE <<>>
       IN  appendFile(f, unifiedPath, separator \o blockText(name, content), fault)
  ELSE Succeed(f, <<>>)

\* lines 236-243: what the merge does to the unified file, given the two texts
\* read at lines 230 and 234
mergeInto(f, name, content, unifiedTx, fault) ==
  IF ~includes(unifiedTx, blockStart(name)) /\ ~options.dryRun
  THEN LET separator == IF Len(unifiedTx) > 0 /\ ~endsWith(unifiedTx, <<NL, NL>>)
                        THEN <<NL, NL>> ELSE <<>>
       IN  appendFile(f, unifiedPath, separator \o blockText(name, content), fault)
  ELSE Succeed(f, <<>>)

\* lines 229-249: a regular file is read and its block appended to the unified
\* file, unless the start marker is found there
Merge(fault) ==
  /\ AtArgument
  /\ lstat(fs, filePath) = "file"
  /\ LET content == readFile(fs, filePath)
         unifiedTx == readFile(fs, unifiedPath)
     IN  IF content.ok /\ unifiedTx.ok
         THEN LET r == mergeInto(fs, file, content.value, unifiedTx.value, fault)
              IN  /\ fault => ~r.ok
                  /\ fs' = r.fs
                  /\ pc' = IF ~r.ok THEN "exit1"
                           ELSE IF options.dryRun THEN "gitignore" ELSE "rename"
         ELSE ~fault /\ fs' = fs /\ pc' = "exit1"
  /\ UNCHANGED <<cfg, fileIdx, critical, run, history>>

\* line 256 as it would be if the input were removed instead of renamed
RenameToBackup_Unlinks(fault) ==
  /\ pc = "rename"
  /\ LET r == unlink(fs, filePath, fault)
     IN  fs' = r.fs /\ pc' = IF r.ok THEN "replace" ELSE "rollback"
  /\ orig' = fs[filePath].data
  /\ UNCHANGED <<cfg, fileIdx, critical, run, fs0, prevExit, replaced,
                 linkErr, inserted>>

\* line 256: the input is renamed to the backup path
RenameToBackup(fault) ==
  /\ pc = "rename"
  /\ LET r == rename(fs, filePath, backupPath, fault)
     IN  fs' = r.fs /\ pc' = IF r.ok THEN "replace" ELSE "rollback"
  /\ orig' = fs[filePath].data
  /\ UNCHANGED <<cfg, fileIdx, critical, run, fs0, prevExit, replaced,
                 linkErr, inserted>>

\* line 257: the link is created where the input was
ReplaceWithSymlink(fault) ==
  /\ pc = "replace"
  /\ LET r == createSymlinkWithFallback(fs, symlinkTarget(filePath), filePath,
                                        unifiedPath, fault)
     IN  /\ fs' = r.fs
         /\ pc' = IF r.ok THEN "unlinkBackup" ELSE "rollback"
         /\ linkErr' = ~r.ok
         /\ replaced' = IF r.ok
                        THEN replaced \cup {[file |-> file, content |-> orig]}
                        ELSE replaced
  /\ UNCHANGED <<cfg, fileIdx, critical, run, fs0, prevExit, orig, inserted>>

\* line 258: the backup is deleted
UnlinkBackup(fault) ==
  /\ pc = "unlinkBackup"
  /\ LET r == unlink(fs, backupPath, fault)
     IN  fs' = r.fs /\ pc' = IF r.ok THEN "gitignore" ELSE "rollback"
  /\ UNCHANGED <<cfg, fileIdx, critical, run, history>>

\* the catch block as it would be if it threw again without the rename back
Rollback_NoRestore(fault) ==
  /\ pc = "rollback"
  /\ ~fault
  /\ pc' = "exit1"
  /\ UNCHANGED <<fs, cfg, fileIdx, critical, run, history>>

\* lines 259-268: the backup is renamed back and the error is thrown again
Rollback(fault) ==
  /\ pc = "rollback"
  /\ LET r == rename(fs, backupPath, filePath, fault)
     IN  fs' = r.fs /\ critical' = ~r.ok
  /\ pc' = "exit1"
  /\ UNCHANGED <<cfg, fileIdx, run, history>>

\* lines 204, 225, 274: the argument is recorded in the ignore-list
AddToGitignore(fault) ==
  /\ pc = "gitignore"
  /\ LET r == addToGitignore(fs, file, fault)
         listed == \E k \in DOMAIN gitignoreEntries(fs) : gitignoreEntries(fs)[k] = file
         known == \E k \in DOMAIN inserted : inserted[k] = file
     IN  /\ fs' = r.fs
         /\ fault => ~r.ok
         /\ pc' = IF r.ok THEN "loop" ELSE "exit1"
         /\ fileIdx' = IF r.ok THEN fileIdx + 1 ELSE fileIdx
         /\ inserted' = IF r.ok /\ ~options.dryRun /\ ~listed /\ ~known
                        THEN Append(inserted, file) ELSE inserted
  /\ UNCHANGED <<cfg, critical, run, fs0, prevExit, replaced, linkErr, orig>>

\* line 275: every argument is handled, the process ends with code 0
Finish ==
  /\ pc = "loop"
  /\ fileIdx > Len(filesToProcess)
  /\ pc' = "exit0"
  /\ UNCHANGED <<fs, cfg, fileIdx, critical, run, history>>

\* the command is invoked again with the same arguments
Rerun ==
  /\ pc \in {"exit0", "exit1"}
  /\ run < MaxRuns
  /\ run' = run + 1
  /\ pc' = "bootstrap"
  /\ fileIdx' = 1
  /\ critical' = FALSE
  /\ fs0' = fs
  /\ prevExit' = pc
  /\ linkErr' = FALSE
  /\ orig' = <<>>
  /\ UNCHANGED <<fs, cfg, replaced, inserted>>

Next ==
  \/ \E fault \in BOOLEAN : Bootstrap(fault)
  \/ SkipUnified
  \/ \E fault \in BOOLEAN : CreateForAbsent(fault)
  \/ KeepSymlink
  \/ \E fault \in BOOLEAN : UnlinkStale(fault)
  \/ \E fault \in BOOLEAN : Relink(fault)
  \/ \E fault \in BOOLEAN : Merge(fault)
  \/ \E fault \in BOOLEAN : RenameToBackup(fault)
  \/ \E fault \in BOOLEAN : ReplaceWithSymlink(fault)
  \/ \E fault \in BOOLEAN : UnlinkBackup(fault)
  \/ \E fault \in BOOLEAN : Rollback(fault)
  \/ \E fault \in BOOLEAN : AddToGitignore(fault)
  \/ Finish
  \/ Rerun

Spec == Init /\ [][Next]_vars

\* ------------------------------------------- a dry run, then the run itself
\* the command is invoked again with the same arguments without --dry-run
\* (lines 119-121), from the state the dry run has left
RerunWithoutDryRun ==
  /\ pc \in {"exit0", "exit1"}
  /\ options.dryRun
  /\ options' = [options EXCEPT !.dryRun = FALSE]
  /\ args' = commandLine(options', filesToProcess)
  /\ argIdx' = Len(args') + 1
  /\ run' = run + 1
  /\ pc' = "bootstrap"
  /\ fileIdx' = 1
  /\ critical' = FALSE
  /\ fs0' = fs
  /\ prevExit' = pc
  /\ linkErr' = FALSE
  /\ orig' = <<>>
  /\ UNCHANGED <<fs, filesToProcess, platform, replaced, inserted>>

InitParity == Init /\ options.dryRun

NextParity ==
  \/ \E fault \in BOOLEAN : Bootstrap(fault)
  \/ SkipUnified
  \/ \E fault \in BOOLEAN : CreateForAbsent(fault)
  \/ KeepSymlink
  \/ \E fault \in BOOLEAN : UnlinkStale(fault)
  \/ \E fault \in BOOLEAN : Relink(fault)
  \/ \E fault \in BOOLEAN : Merge(fault)
  \/ \E fault \in BOOLEAN : RenameToBackup(fault)
  \/ \E fault \in BOOLEAN : ReplaceWithSymlink(fault)
  \/ \E fault \in BOOLEAN : UnlinkBackup(fault)
  \/ \E fault \in BOOLEAN : Rollback(fault)
  \/ \E fault \in BOOLEAN : AddToGitignore(fault)
  \/ Finish
  \/ RerunWithoutDryRun

SpecParity == InitParity /\ [][NextParity]_vars

\* ------------------------------------- a failed run, then the run once more
\* the command is invoked again with the same arguments after a run in which
\* link creation failed in the replace step and the rename back succeeded;
\* fs0 stays the filesystem that the failed run started in
Retry ==
  /\ pc = "exit1" /\ linkErr /\ ~critical
  /\ run < MaxRuns
  /\ run' = run + 1
  /\ pc' = "bootstrap"
  /\ fileIdx' = 1
  /\ prevExit' = pc
  /\ linkErr' = FALSE
  /\ orig' = <<>>
  /\ UNCHANGED <<fs, cfg, critical, fs0, replaced, inserted>>

NextRetry ==
  \/ \E fault \in BOOLEAN : Bootstrap(fault)
  \/ SkipUnified
  \/ \E fault \in BOOLEAN : CreateForAbsent(fault)
  \/ KeepSymlink
  \/ \E fault \in BOOLEAN : UnlinkStale(fault)
  \/ \E fault \in BOOLEAN : Relink(fault)
  \/ \E fault \in BOOLEAN : Merge(fault)
  \/ \E fault \in BOOLEAN : RenameToBackup(fault)
  \/ \E fault \in BOOLEAN : ReplaceWithSymlink(fault)
  \/ \E fault \in BOOLEAN : UnlinkBackup(fault)
  \/ \E fault \in BOOLEAN : Rollback(fault)
  \/ \E fault \in BOOLEAN : AddToGitignore(fault)
  \/ Finish
  \/ Retry

SpecRetry == Init /\ [][NextRetry]_vars

\* ------------------------------------------- the command line is parsed
\* what args[++i] yields past the end of args (line 114)
undefined == <<"undefined">>

\* a token no case of the switch names
UnknownOption == <<"-", "x">>

\* the tokens the command lines are made of
Tokens ==
  {<<"-", "h">>, <<"-", "-version">>, <<"-", "o">>, <<"-", "-absolute">>,
   <<"-", "-dry-run">>, <<"-", "v">>, UnknownOption, CLAUDE, AGENTS}

\* lines 102-133: one turn of the parsing loop
ParseArg ==
  /\ pc = "parse"
  /\ argIdx <= Len(args)
  /\ LET arg == args[argIdx]
         set(field, value) ==
           /\ options' = [options EXCEPT ![field] = value]
           /\ argIdx' = argIdx + 1
           /\ UNCHANGED <<pc, filesToProcess>>
     IN  IF arg \in HelpTokens THEN set("showHelp", TRUE)
         ELSE IF arg \in VersionTokens THEN set("showVersion", TRUE)
         ELSE IF arg \in OutputTokens
         THEN /\ options' = [options EXCEPT
                               !.output = IF argIdx + 1 <= Len(args)
                                          THEN args[argIdx + 1] ELSE undefined]
              /\ argIdx' = argIdx + 2
              /\ UNCHANGED <<pc, filesToProcess>>
         ELSE IF arg \in AbsoluteTokens THEN set("absolute", TRUE)
         ELSE IF arg \in DryRunTokens THEN set("dryRun", TRUE)
         ELSE IF arg \in VerboseTokens THEN set("verbose", TRUE)
         ELSE IF startsWith(arg, <<"-">>)
         THEN pc' = "exit1" /\ UNCHANGED <<options, argIdx, filesToProcess>>
         ELSE /\ filesToProcess' = Append(filesToProcess, arg)
              /\ argIdx' = argIdx + 1
              /\ UNCHANGED <<pc, options>>
  /\ UNCHANGED <<fs, args, platform, fileIdx, critical, run, history>>

\* lines 135-160: help, version and the empty list of files end the process
\* with code 0; path.isAbsolute throws a TypeError for the undefined output
Dispatch ==
  /\ pc = "parse"
  /\ argIdx > Len(args)
  /\ pc' = IF options.showHelp \/ options.showVersion \/ Len(filesToProcess) = 0
           THEN "exit0"
           ELSE IF unified = undefined THEN "exit1"
           ELSE "bootstrap"
  /\ UNCHANGED <<fs, cfg, fileIdx, critical, run, history>>

\* the process starts with a command line of up to MaxArgs tokens, on the host
\* that creates links, in a directory in which CLAUDE.md is absent, a regular
\* file or a link, and AGENTS.md and .gitignore are both there or both not
InitArgs ==
  /\ args \in UNION {[1..n -> Tokens] : n \in 1..MaxArgs}
  /\ argIdx = 1
  /\ options = [output |-> AGENTS, absolute |-> FALSE, dryRun |-> FALSE,
                verbose |-> FALSE, showHelp |-> FALSE, showVersion |-> FALSE]
  /\ filesToProcess = <<>>
  /\ platform = "linux"
  /\ \E kind \in EntryKinds, repo \in {"fresh", "used"} :
       fs = InitialFs([n \in OwnNames |-> IF n = CLAUDE THEN kind ELSE "absent"], repo)
  /\ pc = "parse"
  /\ fileIdx = 1
  /\ critical = FALSE
  /\ run = 1
  /\ fs0 = fs
  /\ prevExit = "none"
  /\ replaced = {}
  /\ linkErr = FALSE
  /\ orig = <<>>
  /\ inserted = <<>>

NextArgs ==
  \/ ParseArg
  \/ Dispatch
  \/ \E fault \in BOOLEAN : Bootstrap(fault)
  \/ SkipUnified
  \/ \E fault \in BOOLEAN : CreateForAbsent(fault)
  \/ KeepSymlink
  \/ \E fault \in BOOLEAN : UnlinkStale(fault)
  \/ \E fault \in BOOLEAN : Relink(fault)
  \/ \E fault \in BOOLEAN : Merge(fault)
  \/ \E fault \in BOOLEAN : RenameToBackup(fault)
  \/ \E fault \in BOOLEAN : ReplaceWithSymlink(fault)
  \/ \E fault \in BOOLEAN : UnlinkBackup(fault)
  \/ \E fault \in BOOLEAN : Rollback(fault)
  \/ \E fault \in BOOLEAN : AddToGitignore(fault)
  \/ Finish

SpecArgs == InitArgs /\ [][NextArgs]_vars

\* ------------------------------ two regular files with names of any shape
\* file names made of backticks, backslashes, the text ">>> " and a letter
MarkerNames ==
  UNION {[1..n -> {BT, BS, ">>> ", "a"}] : n \in 1..MaxName}

\* what the regular file given as the k-th argument holds
MarkedContent(k) == <<"x", ToString(k)>>

\* a non-dry run on the host that creates links, in a directory that holds
\* nothing but two regular files with different names
InitMarkers ==
  /\ filesToProcess \in [1..2 -> MarkerNames]
  /\ filesToProcess[1] # filesToProcess[2]
  /\ options = [output |-> AGENTS, absolute |-> FALSE, dryRun |-> FALSE,
                verbose |-> FALSE, showHelp |-> FALSE, showVersion |-> FALSE]
  /\ args = filesToProcess
  /\ argIdx = Len(args) + 1
  /\ platform = "linux"
  /\ fs = [p \in {pathJoin(cwd, filesToProcess[k]) : k \in 1..2} |->
             File(MarkedContent(CHOOSE k \in 1..2 : pathJoin(cwd, filesToProcess[k]) = p))]
  /\ pc = "bootstrap"
  /\ fileIdx = 1
  /\ critical = FALSE
  /\ run = 1
  /\ fs0 = fs
  /\ prevExit = "none"
  /\ replaced = {}
  /\ linkErr = FALSE
  /\ orig = <<>>
  /\ inserted = <<>>

\* the run in which no call fails for a reason outside the model
NextMarkers ==
  \/ Bootstrap(FALSE)
  \/ Merge(FALSE)
  \/ RenameToBackup(FALSE)
  \/ ReplaceWithSymlink(FALSE)
  \/ UnlinkBackup(FALSE)
  \/ AddToGitignore(FALSE)
  \/ Finish

SpecMarkers == InitMarkers /\ [][NextMarkers]_vars

\* ------------------------------------------------ a run as one computation
\* lines 183-275 for one argument of a non-dry run in which no call fails for
\* a reason outside the model: the filesystem it leaves, or a failure
convert(f, name) ==
  LET p == pathJoin(cwd, name)
      target == symlinkTarget(p)
  IN  IF isUnifiedItself(name) THEN Succeed(f, <<>>)
      ELSE IF lstat(f, p) = "absent"
      THEN LET r == createSymlinkWithFallback(f, target, p, unifiedPath, FALSE)
           IN  IF r.ok THEN addToGitignore(r.fs, name, FALSE) ELSE Fail(f)
      ELSE IF lstat(f, p) = "link"
      THEN IF wrongTarget(f, p)
           THEN LET u == unlink(f, p, FALSE)
                    r == createSymlinkWithFallback(u.fs, target, p, unifiedPath, FALSE)
                IN  IF r.ok THEN addToGitignore(r.fs, name, FALSE) ELSE Fail(f)
           ELSE addToGitignore(f, name, FALSE)
      ELSE LET content == readFile(f, p)
               unifiedTx == readFile(f, unifiedPath)
           IN  IF ~content.ok \/ ~unifiedTx.ok THEN Fail(f)
               ELSE LET m == mergeInto(f, name, content.value, unifiedTx.value, FALSE)
                        backup == p \o <<".backup-", ToString(run)>>
                        moved == rename(m.fs, p, backup, FALSE)
                        made == createSymlinkWithFallback(moved.fs, target, p,
                                                          unifiedPath, FALSE)
                        cleaned == unlink(made.fs, backup, FALSE)
                    IN  IF m.ok /\ moved.ok /\ made.ok /\ cleaned.ok
                        THEN addToGitignore(cleaned.fs, name, FALSE)
                        ELSE Fail(f)

\* line 183: the arguments from position k on, one after the other
RECURSIVE convertFrom(_, _)
convertFrom(f, k) ==
  IF k > Len(filesToProcess) THEN Succeed(f, <<>>)
  ELSE LET r == convert(f, filesToProcess[k])
       IN  IF r.ok THEN convertFrom(r.fs, k + 1) ELSE Fail(f)

\* lines 169-275: the bootstrap and the loop of a non-dry run
wholeRun(f) ==
  LET b == IF access(f, unifiedPath).ok THEN Succeed(f, <<>>)
           ELSE writeFile(f, unifiedPath, <<>>, FALSE)
  IN  IF b.ok THEN convertFrom(b.fs, 1) ELSE Fail(f)

\* ------------------------------------------------------------------ claims
\* the path of the k-th argument
argPath(k) == pathJoin(cwd, filesToProcess[k])

\* the run has ended with code 0 / code 1
Exit0 == pc = "exit0"
Exit1 == pc = "exit1"

\* every invocation so far has ended with code 0
AllSucceeded == Exit0 /\ prevExit \in {"none", "exit0"}

\* the unified file is a regular file, and its text
UnifiedIsFile == lstat(fs, unifiedPath) = "file"
UnifiedText == fs[unifiedPath].data

\* C1 (as claimed): when link creation has failed in the replace step and the
\* run has ended with code 1, the input path is a regular file that holds what
\* it held when the run started.  Stated for the inputs that have a path of
\* their own (not the unified file's), on the host that creates links.
C1_RollbackRestoresOriginal ==
  (Exit1 /\ linkErr /\ filePath # unifiedPath /\ platform = "linux")
    => /\ lstat(fs, filePath) = "file"
       /\ fs[filePath].data = fs0[filePath].data

\* C1 (amended): when link creation has failed in the replace step and the run
\* has ended with code 1, then, if the rename back succeeded, the input path is
\* a regular file that holds what it held when the replace step began; if the
\* rename back failed (the critical error was reported), the backup path is
\* that regular file and the input path does not exist.  For an input that has
\* a path of its own, on the host that creates links, what it held when the
\* replace step began is what it held when the run started.
C1_RollbackRestoresOrBackupKeeps ==
  (Exit1 /\ linkErr)
    => /\ IF critical
          THEN lstat(fs, backupPath) = "file" /\ fs[backupPath].data = orig
               /\ lstat(fs, filePath) = "absent"
          ELSE lstat(fs, filePath) = "file" /\ fs[filePath].data = orig
       /\ (filePath # unifiedPath /\ platform = "linux")
            => lstat(fs0, filePath) = "file" /\ orig = fs0[filePath].data

\* C1 witness: link creation failed on a regular file with a path of its own,
\* the rename back succeeded and the run ended with code 1, the content intact
C1_Witness ==
  /\ Exit1 /\ linkErr /\ ~critical
  /\ file = CLAUDE
  /\ fs[filePath] = File(InitialContent(CLAUDE))
  /\ backupPath \notin DOMAIN fs

\* C2 (as claimed): after successful non-dry runs, the unified file holds, for
\* every regular file a link has replaced, the block of its name around its
\* trimmed content.  Stated for the inputs that have a path of their own, on
\* the host that creates links.
C2_NoContentLost ==
  (AllSucceeded /\ ~options.dryRun /\ platform = "linux")
    => \A r \in replaced :
         pathJoin(cwd, r.file) # unifiedPath
           => /\ UnifiedIsFile
              /\ includes(UnifiedText,
                          blockStart(r.file) \o <<NL>> \o trim(r.content) \o <<NL>>
                            \o blockEnd(r.file))

\* C3 (as claimed): a second successful run with the same arguments leaves the
\* filesystem as the first successful run left it
C3_Idempotent ==
  (Exit0 /\ prevExit = "exit0") => fs = fs0

\* C4: with --dry-run the filesystem is, at every point of the run, what it was
\* when the run started
C4_DryRunPure ==
  options.dryRun => fs = fs0

\* C4 witness: a dry run has ended after handling a regular file, a stale link
\* or an absent input, the unified file and .gitignore present or not
C4_Witness ==
  /\ options.dryRun /\ Exit0 /\ run = 1
  /\ Len(filesToProcess) = 2
  /\ lstat(fs, argPath(1)) = "file" /\ filesToProcess[1] = CLAUDE
  /\ lstat(fs, argPath(2)) = "link"
  /\ fs[argPath(2)].data # symlinkTarget(argPath(2))

\* C5 (as claimed): after a successful non-dry run every argument that is not
\* the unified output name is a symbolic link whose target resolves to the
\* unified file, and the unified file holds its start marker at most once.
\* Stated leniently: on the win32 host the regular file that the copy fallback
\* leaves is taken for the link.
C5_Converged ==
  (Exit0 /\ ~options.dryRun)
    => \A k \in DOMAIN filesToProcess :
         filesToProcess[k] # unified
           => /\ \/ /\ lstat(fs, argPath(k)) = "link"
                    /\ linkDest(argPath(k), fs[argPath(k)].data) = unifiedPath
                 \/ platform = "win32" /\ lstat(fs, argPath(k)) = "file"
              /\ UnifiedIsFile
                   => Occurrences(UnifiedText, blockStart(filesToProcess[k])) <= 1

\* C6 (as claimed): every step leaves the unified file a regular file whose
\* text starts with the text it had before the step.  Stated for the host that
\* creates links.
C6_AppendOnly ==
  [][(platform = "linux" /\ UnifiedIsFile)
       => /\ lstat(fs', unifiedPath) = "file"
          /\ startsWith(fs'[unifiedPath].data, UnifiedText)]_vars

\* C7 (as claimed): at every point of a non-dry run after the bootstrap has
\* succeeded, the path of the unified file is a regular file.  Stated for the
\* host that creates links.
C7_UnifiedNeverDeleted ==
  (platform = "linux" /\ ~options.dryRun /\ pc \notin {"bootstrap", "exit1"})
    => UnifiedIsFile

\* C8: the step taken at an argument equal to the unified output name leaves
\* the whole filesystem as it is and moves the loop to the next argument
C8_SelfSkip ==
  [][(pc = "loop" /\ fileIdx <= Len(filesToProcess) /\ file = unified)
       => (fs' = fs /\ pc' = "loop" /\ fileIdx' = fileIdx + 1)]_vars

\* C8 witness: a non-dry run has passed its first argument, the unified output
\* name, with the filesystem untouched since the bootstrap, and is at the second
C8_Witness ==
  /\ ~options.dryRun /\ run = 1
  /\ pc = "loop" /\ fileIdx = 2
  /\ filesToProcess = <<AGENTS, CLAUDE>>
  /\ lstat(fs, argPath(2)) = "file"
  /\ fs = fs0

\* the argument the loop is at is a symbolic link with the expected target
AtConvergedLink ==
  /\ pc = "loop" /\ fileIdx <= Len(filesToProcess) /\ file # unified
  /\ lstat(fs, filePath) = "link"
  /\ fs[filePath].data = symlinkTarget(filePath)

\* C9 (as claimed): after a successful non-dry run, an argument that was a
\* symbolic link when the run started is a symbolic link with the expected
\* target; and the step taken at an argument that is a symbolic link with the
\* expected target leaves its entry as it is
C9_LinkConverges ==
  /\ []((Exit0 /\ ~options.dryRun)
          => \A k \in DOMAIN filesToProcess :
               (filesToProcess[k] # unified /\ lstat(fs0, argPath(k)) = "link")
                 => fs[argPath(k)] = Link(symlinkTarget(argPath(k))))
  /\ [][AtConvergedLink => fs'[filePath] = fs[filePath]]_vars

\* C9 (amended): after a successful non-dry run, an argument that was a
\* symbolic link when the run started is a symbolic link with the expected
\* target or, on the win32 host where link creation is refused and the copy
\* fallback is taken, a regular file that holds a copy of the unified file's
\* text (what the unified file now holds starts with it); and the step taken at
\* an argument that is a symbolic link with the expected target leaves the
\* whole filesystem as it is
C9_LinkConvergesOrCopied ==
  /\ []((Exit0 /\ ~options.dryRun)
          => \A k \in DOMAIN filesToProcess :
               (filesToProcess[k] # unified /\ lstat(fs0, argPath(k)) = "link")
                 => \/ fs[argPath(k)] = Link(symlinkTarget(argPath(k)))
                    \/ /\ platform = "win32"
                       /\ lstat(fs, argPath(k)) = "file"
                       /\ UnifiedIsFile
                       /\ startsWith(UnifiedText, fs[argPath(k)].data))
  /\ [][AtConvergedLink => fs' = fs]_vars

\* C9 witness: a successful run has ended on the host that creates links, and
\* the stale link it started with now has the expected target
C9_Witness ==
  /\ Exit0 /\ ~options.dryRun /\ platform = "linux" /\ run = 1
  /\ filesToProcess = <<GEMINI>>
  /\ lstat(fs0, argPath(1)) = "link" /\ fs0[argPath(1)].data = StaleTarget
  /\ lstat(fs, argPath(1)) = "link" /\ fs[argPath(1)].data = <<".", ".", "/", "A">>

\* how often a name is among the entries of the ignore-list's block
timesListed(f, name) ==
  Cardinality({k \in DOMAIN gitignoreEntries(f) : gitignoreEntries(f)[k] = name})

\* the entries of the ignore-list's block that the runs have inserted
insertedEntries(f) ==
  SelectSeq(gitignoreEntries(f), LAMBDA e : \E k \in DOMAIN inserted : inserted[k] = e)

entry(f, p) == IF p \in DOMAIN f THEN f[p] ELSE [kind |-> "absent", data |-> <<>>]

\* the argument at position k has not been reached by the run: no argument up
\* to the one the run is at has its name or its path, and it is not the
\* unified file.  Its path is as it was when the run started, its name is
\* listed as often as it was, and the block of what it held is in the unified
\* file only if it was there when the run started.
laterUntouched(k) ==
  LET p == argPath(k)
      n == filesToProcess[k]
      block == blockStart(n) \o <<NL>> \o trim(entry(fs0, p).data)
  IN  ((\A j \in 1..fileIdx : filesToProcess[j] # n /\ argPath(j) # p)
         /\ p # unifiedPath)
        => /\ entry(fs, p) = entry(fs0, p)
           /\ timesListed(fs, n) = timesListed(fs0, n)
           /\ (lstat(fs0, p) = "file" /\ UnifiedIsFile /\ includes(UnifiedText, block))
                => (lstat(fs0, unifiedPath) = "file"
                      /\ includes(fs0[unifiedPath].data, block))

\* the argument at position j, handled before the one the run is at, has its
\* converted state: its path is the link (on the win32 host, the copy), its
\* name is listed, and if it was a regular file its start marker is in the
\* unified file
earlierConverted(j) ==
  LET p == argPath(j)
      n == filesToProcess[j]
  IN  (n # unified /\ p # filePath)
        => /\ \/ entry(fs, p) = Link(symlinkTarget(p))
              \/ platform = "win32" /\ lstat(fs, p) = "file"
           /\ timesListed(fs, n) >= 1
           /\ lstat(fs0, p) = "file"
                => (UnifiedIsFile /\ includes(UnifiedText, blockStart(n)))

\* C11 (as claimed): the loop moves from one argument to the next only; when a
\* non-dry run has ended with code 1 at some argument, no later argument has
\* been touched and every earlier argument has its converted state; and
\* nothing changes after the run has ended.
C11_SequentialAbort ==
  /\ []((Exit1 /\ ~options.dryRun)
          => /\ \A k \in (fileIdx + 1)..Len(filesToProcess) : laterUntouched(k)
             /\ \A j \in 1..(fileIdx - 1) : earlierConverted(j))
  /\ [][(run' = run) => (fileIdx' \in {fileIdx, fileIdx + 1})]_vars
  /\ [][(pc \in {"exit0", "exit1"}) => (fs' = fs)]_vars

\* the loop is at an argument that is absent or is a symbolic link, or between
\* the removal of a stale link and its creation again
AtAbsentOrLink ==
  \/ AtArgument /\ lstat(fs, filePath) \in {"absent", "link"}
  \/ pc = "relink"

\* the step changes nothing but the entry at path p
changesOnly(p) ==
  \A q \in (DOMAIN fs \cup DOMAIN fs') \ {p} : entry(fs', q) = entry(fs, q)

\* C12 (as claimed): a step taken at an argument that is absent or is a
\* symbolic link leaves the unified file as it is; the step taken at an absent
\* argument changes nothing or puts a symbolic link with the expected target
\* at the argument's path; and the step that records an argument in the
\* ignore-list changes nothing but .gitignore
C12_OnlyFilesWrite ==
  /\ [][AtAbsentOrLink => (entry(fs', unifiedPath) = entry(fs, unifiedPath))]_vars
  /\ [][(AtArgument /\ lstat(fs, filePath) = "absent")
          => (fs' = fs \/ fs' = put(fs, filePath, Link(symlinkTarget(filePath))))]_vars
  /\ [][(pc = "gitignore") => changesOnly(gitignorePath)]_vars

\* C12 (amended): as claimed, but on the win32 host, where link creation is
\* refused and the copy fallback is taken, the step taken at an absent argument
\* puts a regular file with the unified file's text at the argument's path
C12_OnlyFilesWriteOrCopy ==
  /\ [][AtAbsentOrLink => (entry(fs', unifiedPath) = entry(fs, unifiedPath))]_vars
  /\ [][(AtArgument /\ lstat(fs, filePath) = "absent")
          => \/ fs' = fs
             \/ fs' = put(fs, filePath, Link(symlinkTarget(filePath)))
             \/ /\ platform = "win32"
                /\ lstat(fs, unifiedPath) = "file"
                /\ fs' = put(fs, filePath, File(fs[unifiedPath].data))]_vars
  /\ [][(pc = "gitignore") => changesOnly(gitignorePath)]_vars

\* C12 witness: the first argument was absent; it is now a link to the unified
\* file and is listed, the unified file is as it was, and the loop is at the
\* second argument
C12_Witness ==
  /\ ~options.dryRun /\ platform = "linux" /\ run = 1
  /\ pc = "loop" /\ fileIdx = 2
  /\ filesToProcess = <<GEMINI, CLAUDE>>
  /\ lstat(fs0, argPath(1)) = "absent"
  /\ fs[argPath(1)] = Link(<<".", ".", "/", "A">>)
  /\ lstat(fs0, unifiedPath) = "file" /\ fs[unifiedPath] = fs0[unifiedPath]
  /\ timesListed(fs, GEMINI) = 1 /\ timesListed(fs0, GEMINI) = 0

\* what the input held when it was renamed away is at the input path or at the
\* backup path of filesystem f
OrigKept(f) ==
  \/ lstat(f, filePath) = "file" /\ f[filePath].data = orig
  \/ lstat(f, backupPath) = "file" /\ f[backupPath].data = orig

\* line 254: the path is a backup path
isBackup(q) == Len(q) >= 2 /\ q[Len(q) - 1] = ".backup-"

\* C14: from the rename to the backup path until the conversion of a regular
\* file ends (link made and backup deleted, or rename back attempted), what the
\* input held is at the input path or at the backup path; a backup path leaves
\* the filesystem only in the step that deletes it, with the link (on the win32
\* host, the copy) at the input path, or in the rename back; and a run that
\* ends with code 0 leaves no backup behind that was not there when it started
C14_BackupSafety ==
  /\ []((pc \in {"replace", "unlinkBackup", "rollback"}) => OrigKept(fs))
  /\ [][(pc = "rollback") => OrigKept(fs')]_vars
  /\ [][\A q \in (DOMAIN fs) \ (DOMAIN fs') :
          isBackup(q)
            => /\ q = backupPath
               /\ \/ /\ pc = "unlinkBackup"
                     /\ \/ fs[filePath] = Link(symlinkTarget(filePath))
                        \/ platform = "win32" /\ lstat(fs, filePath) = "file"
                  \/ pc = "rollback" /\ OrigKept(fs')]_vars
  /\ [](Exit0 => \A q \in DOMAIN fs : isBackup(q) => q \in DOMAIN fs0)

\* C14 witness: a regular file has been renamed to the backup path and the link
\* stands at the input path; the backup, with what the file held, is not yet
\* deleted
C14_Witness ==
  /\ pc = "unlinkBackup" /\ platform = "linux" /\ run = 1
  /\ file = CLAUDE
  /\ fs[filePath] = Link(<<"A">>)
  /\ fs[backupPath] = File(InitialContent(CLAUDE))
  /\ orig = InitialContent(CLAUDE)

\* C15 (as claimed): when the critical error has been reported, link creation
\* had failed after the input was renamed to the backup path, the backup path
\* is a regular file with what the input held, and the run has ended with
\* code 1.  Stated for the host that creates links.
C15_CriticalOnlyAfterLinkFailure ==
  (critical /\ platform = "linux")
    => /\ linkErr
       /\ lstat(fs, backupPath) = "file" /\ fs[backupPath].data = orig
       /\ Exit1

\* C20 (as claimed): when a run has ended with code 1, every argument's path
\* that existed when the run started, as a regular file or as a symbolic link,
\* still exists.  Stated for the host that creates links.
C20_FailedRunKeepsInputs ==
  (Exit1 /\ platform = "linux")
    => \A k \in DOMAIN filesToProcess :
         lstat(fs0, argPath(k)) # "absent" => lstat(fs, argPath(k)) # "absent"

\* C16: the step of a non-dry run that merges a regular file with name F and
\* content C, when it does not fail, leaves the unified file as it is if its
\* text U holds the start marker of F; otherwise the unified file's new text is
\* U, then two newlines if U is not empty and does not end with two newlines,
\* then the start marker, a newline, C trimmed, a newline, the end marker and
\* a newline
C16_MergeResult ==
  [][(AtArgument /\ lstat(fs, filePath) = "file" /\ ~options.dryRun
        /\ pc' # "exit1")
       => LET U == readFile(fs, unifiedPath).value
              C == readFile(fs, filePath).value
              start == <<BT, ">>> ">> \o safeFilename(file) \o <<BT>>
              end == <<BT, "<<< ">> \o safeFilename(file) \o <<BT>>
              sep == IF U # <<>> /\ ~endsWith(U, <<NL, NL>>) THEN <<NL, NL>> ELSE <<>>
          IN  IF includes(U, start)
              THEN entry(fs', unifiedPath) = entry(fs, unifiedPath)
              ELSE entry(fs', unifiedPath)
                     = File(U \o sep \o start \o <<NL>> \o trim(C) \o <<NL>>
                              \o end \o <<NL>>)]_vars

\* C16 witness: CLAUDE.md has been merged into a unified file whose text ended
\* with a blank line: its block follows with no separator
C16_Witness ==
  /\ pc = "rename" /\ run = 1 /\ file = CLAUDE /\ fileIdx = 1
  /\ lstat(fs0, unifiedPath) = "file" /\ fs0[unifiedPath].data = <<"u", NL, NL>>
  /\ fs[filePath] = File(<<" ", "c", NL>>)
  /\ UnifiedText = <<"u", NL, NL, BT, ">>> ", "C", BT, NL, "c", NL,
                     BT, "<<< ", "C", BT, NL>>

\* C18 (as claimed), under SpecParity, where a dry run is followed by the run
\* without --dry-run from the state the dry run started in: when the run
\* without --dry-run has ended with code 0, it started in that state and the
\* dry run had ended with code 0.  Stated for the host that creates links.
C18_DryRunExitParity ==
  (Exit0 /\ ~options.dryRun /\ platform = "linux")
    => (prevExit = "exit0" /\ run = 2)

\* C19 (as claimed), under SpecRetry, where a run that failed at link creation
\* and restored the backup is followed by the run once more: when the later
\* run of a non-dry invocation has ended with code 0, the filesystem is what a
\* single run without a failure leaves of the filesystem the failed run
\* started in
C19_RetryConverges ==
  (Exit0 /\ prevExit = "exit1" /\ ~options.dryRun)
    => (wholeRun(fs0).ok /\ fs = wholeRun(fs0).fs)

\* the start marker of name n differs from the start marker of name m and is
\* no part of the start marker or of the end marker of m
markersApart(n, m) ==
  /\ blockStart(n) # blockStart(m)
  /\ ~includes(blockStart(m), blockStart(n))
  /\ ~includes(blockEnd(m), blockStart(n))

\* C17 (as claimed), under SpecMarkers, where two regular files with different
\* names are merged by one run: when the run has ended with code 0, the start
\* marker of each name is apart from the markers of the other, and the
\* unified file holds the block of each file
C17_MarkersUnique ==
  Exit0
    => \A k \in 1..2 :
         /\ markersApart(filesToProcess[k], filesToProcess[3 - k])
         /\ UnifiedIsFile
         /\ includes(UnifiedText, blockText(filesToProcess[k], MarkedContent(k)))

\* the token starts with "-" and is none of the options
isUnknownOption(t) ==
  /\ Len(t) > 0 /\ t[1] = "-"
  /\ t \notin {<<"-", "h">>, <<"-", "-help">>, <<"-", "-version">>, <<"-", "o">>,
               <<"-", "-output">>, <<"-", "-absolute">>, <<"-", "-dry-run">>,
               <<"-", "v">>, <<"-", "-verbose">>}

\* the command line from position k on has a usage error: an unknown option
\* where an option or a file is read, or -o / --output as the last token
RECURSIVE usageError(_)
usageError(k) ==
  IF k > Len(args) THEN FALSE
  ELSE IF args[k] \in {<<"-", "o">>, <<"-", "-output">>}
       THEN k = Len(args) \/ usageError(k + 2)
       ELSE isUnknownOption(args[k]) \/ usageError(k + 1)

\* C13 (as claimed), under SpecArgs, where the run starts with the parsing of
\* the command line: when the command line has a usage error, the process
\* never ends with code 0 and the filesystem stays what it was
C13_UsageErrors ==
  usageError(1) => (pc # "exit0" /\ fs = fs0)

====
